---- MODULE Spec2Model ----
(***************************************************************************)
(* Model of the basic LSP server (server.py): the main loop, the request   *)
(* and notification dispatch, the document handlers and the diagnostic     *)
(* engine.                                                                 *)
(*                                                                         *)
(* JSON values are tagged tuples, so that values of different JSON types   *)
(* can be compared:  <<"null">>, <<"int", n>>, <<"str", s>>,               *)
(* <<"list", seq>>, <<"obj", record>>.  Python's None is JSON null.  A     *)
(* text is a <<"str", s>> whose s is a sequence of one-character strings.  *)
(***************************************************************************)
EXTENDS Integers, Sequences, FiniteSets, TLC

\* ------------------------------------------------------------------------
\* JSON values as Python sees them after json.loads
\* ------------------------------------------------------------------------

JNull == <<"null">>

JInt(n) == <<"int", n>>

JStr(s) == <<"str", s>>

JList(seq) == <<"list", seq>>

JObj(rec) == <<"obj", rec>>

EmptyObj == <<"obj", <<>>>>

Tag(v) == v[1]

IsObj(v) == Tag(v) = "obj"

IsStr(v) == Tag(v) = "str"

IsList(v) == Tag(v) = "list"

\* dict.get(key, default); the caller has checked IsObj(v)
Get(v, key, default) == IF key \in DOMAIN v[2] THEN v[2][key] ELSE default

\* Python truth value of a decoded JSON value (`if not message`, `if content_changes`)
Truthy(v) ==
    CASE Tag(v) = "null" -> FALSE
      [] Tag(v) = "int"  -> v[2] # 0
      [] Tag(v) = "str"  -> Len(v[2]) # 0
      [] Tag(v) = "list" -> v[2] # <<>>
      [] Tag(v) = "obj"  -> DOMAIN v[2] # {}

\* a value usable as a dict key (lists and dicts raise TypeError: unhashable)
Hashable(v) == Tag(v) \in {"null", "int", "str"}

\* ------------------------------------------------------------------------
\* Characters and lines
\* ------------------------------------------------------------------------

\* the line-length threshold of analyze_document
MaxLineLength == 120

\* characters matched by \w among those the model uses
WordChars == {"T", "O", "D", "F", "I", "X", "M", "E",
              "t", "o", "d", "f", "i", "x", "m", "e", "a", "1", "_"}

\* characters removed by str.strip()
Whitespace == {" ", "\t", "\r", "\n"}

\* a comparison that tells the cases apart
FoldNothing(c) == c

\* re.IGNORECASE: both sides are compared after case folding
Fold(c) ==
    CASE c = "t" -> "T" [] c = "o" -> "O" [] c = "d" -> "D" [] c = "f" -> "F"
      [] c = "i" -> "I" [] c = "x" -> "X" [] c = "m" -> "M" [] c = "e" -> "E"
      [] OTHER -> c

\* text.split('\n'): the pieces between the newlines of s, one more than
\* there are newlines
Split(s) ==
    LET newlines == {i \in 1..Len(s) : s[i] = "\n"}
        \* the position of the k-th newline; 0 and Len(s) + 1 bracket the text
        at(k) == IF k = 0 THEN 0
                 ELSE IF k > Cardinality(newlines) THEN Len(s) + 1
                 ELSE CHOOSE i \in newlines :
                          Cardinality({j \in newlines : j < i}) = k - 1
    IN  [k \in 1..(Cardinality(newlines) + 1) |->
            SubSeq(s, at(k - 1) + 1, at(k) - 1)]

\* \b between positions k and k+1 of line (k = 0: before the first character)
Boundary(line, k) ==
    LET before == k >= 1 /\ line[k] \in WordChars
        after  == k < Len(line) /\ line[k + 1] \in WordChars
    IN  before # after

\* word matches line at 0-based offset start, ignoring case, as a whole word
MatchesAt(word, line, start) ==
    /\ start + Len(word) <= Len(line)
    /\ \A k \in 1..Len(word) : Fold(line[start + k]) = Fold(word[k])
    /\ Boundary(line, start)
    /\ Boundary(line, start + Len(word))

\* a search that returns the rightmost match
SearchLast(word, line) ==
    LET starts == {s \in 0..Len(line) : MatchesAt(word, line, s)}
    IN  IF starts = {} THEN <<>>
        ELSE LET s == CHOOSE x \in starts : \A y \in starts : x >= y
             IN  <<s, s + Len(word)>>

\* re.search(r'\bword\b', line, re.IGNORECASE): <<start, end>> of the
\* leftmost match, or <<>> when there is none
Search(word, line) ==
    LET starts == {s \in 0..Len(line) : MatchesAt(word, line, s)}
    IN  IF starts = {} THEN <<>>
        ELSE LET s == CHOOSE x \in starts : \A y \in starts : x <= y
             IN  <<s, s + Len(word)>>

\* line.strip() is non-empty
NonBlank(line) == \E k \in 1..Len(line) : line[k] \notin Whitespace

\* ------------------------------------------------------------------------
\* Diagnostic engine: analyze_document
\* ------------------------------------------------------------------------

TODO == <<"T", "O", "D", "O">>

FIXME == <<"F", "I", "X", "M", "E">>

SeverityWarning == 2

SeverityInformation == 3

Range(line_num, startChar, endChar) ==
    [start |-> [line |-> line_num, character |-> startChar],
     end   |-> [line |-> line_num, character |-> endChar]]

Diagnostic(range, message, severity) ==
    [range |-> range, message |-> message, severity |-> severity,
     source |-> "basic-lsp-server"]

TodoDiagnostics(line, line_num) ==
    LET match == Search(TODO, line)
    IN  IF match # <<>>
        THEN <<Diagnostic(Range(line_num, match[1], match[2]),
                          <<"TODO found: Consider addressing this item">>,
                          SeverityInformation)>>
        ELSE <<>>

FixmeDiagnostics(line, line_num) ==
    LET match == Search(FIXME, line)
    IN  IF match # <<>>
        THEN <<Diagnostic(Range(line_num, match[1], match[2]),
                          <<"FIXME found: This requires immediate attention">>,
                          SeverityWarning)>>
        ELSE <<>>

\* a check that already reports a line of 120 characters
LongLineDiagnosticsFrom120(line, line_num) ==
    IF Len(line) >= MaxLineLength
    THEN <<Diagnostic(Range(line_num, MaxLineLength, Len(line)),
                      <<"Line too long (", Len(line), " > 120 characters)">>,
                      SeverityWarning)>>
    ELSE <<>>

LongLineDiagnostics(line, line_num) ==
    IF Len(line) > MaxLineLength
    THEN <<Diagnostic(Range(line_num, MaxLineLength, Len(line)),
                      <<"Line too long (", Len(line), " > 120 characters)">>,
                      SeverityWarning)>>
    ELSE <<>>

\* a check that compares blank lines as well
DuplicateDiagnosticsOfBlank(lines, i) ==
    IF i - 1 > 0 /\ lines[i] = lines[i - 1]
    THEN <<Diagnostic(Range(i - 1, 0, Len(lines[i])),
                      <<"Duplicate line detected">>,
                      SeverityInformation)>>
    ELSE <<>>

\* lines[i] is the line numbered i - 1
DuplicateDiagnostics(lines, i) ==
    IF i - 1 > 0 /\ NonBlank(lines[i]) /\ lines[i] = lines[i - 1]
    THEN <<Diagnostic(Range(i - 1, 0, Len(lines[i])),
                      <<"Duplicate line detected">>,
                      SeverityInformation)>>
    ELSE <<>>

\* an iteration that looks for FIXME before TODO
LineDiagnosticsFixmeFirst(lines, i) ==
    FixmeDiagnostics(lines[i], i - 1) \o TodoDiagnostics(lines[i], i - 1)
        \o LongLineDiagnostics(lines[i], i - 1) \o DuplicateDiagnostics(lines, i)

\* the diagnostics appended by one iteration of the loop over the lines
LineDiagnostics(lines, i) ==
    TodoDiagnostics(lines[i], i - 1) \o FixmeDiagnostics(lines[i], i - 1)
        \o LongLineDiagnostics(lines[i], i - 1) \o DuplicateDiagnostics(lines, i)

RECURSIVE AnalyzeFrom(_, _)
AnalyzeFrom(lines, i) ==
    IF i > Len(lines) THEN <<>>
    ELSE LineDiagnostics(lines, i) \o AnalyzeFrom(lines, i + 1)

\* analyze_document(text) for a text that is a str
AnalyzeDocument(s) == AnalyzeFrom(Split(s), 1)

\* ------------------------------------------------------------------------
\* Server state
\* ------------------------------------------------------------------------

VARIABLES
    documents,    \* self.documents: uri -> stored text
    running,      \* self.running
    initialized,  \* self.initialized
    stdout,       \* the messages written to sys.stdout, oldest first
    message,      \* run(): the message last returned by read_message
    pc,           \* "loop": at the while test; "dispatch": a message is read
                  \* and not yet dispatched; "stopped": the loop was left by
                  \* its test or by break; "error": run() caught an Exception;
                  \* "exited": sys.exit(0)
    nread,        \* number of calls of read_message so far
    log,          \* the warning and error records written to the log file
    stdin,        \* the characters of sys.stdin not yet read
    sent,         \* the message values handed to send_message, oldest first
    received      \* what the reads of the written frames returned, oldest first

\* the variables of the character level: Spec, SpecFault and SpecAnalyze
\* draw the outcome of a read instead of reading characters, and keep the
\* channel as the sequence of the messages written
framing == <<stdin, sent, received>>

vars ==
    <<documents, running, initialized, stdout, message, pc, nread, log, stdin,
      sent, received>>

\* the number of reads the model follows
MaxMessages == 3

\* ------------------------------------------------------------------------
\* Messages written by the server
\* ------------------------------------------------------------------------

\* the code of every error response
InternalError == -32603

InitializeResult ==
    JObj([capabilities |->
             [textDocumentSync |-> [openClose |-> TRUE, change |-> 1,
                                    save |-> [includeText |-> FALSE]],
              diagnosticProvider |-> [interFileDependencies |-> FALSE,
                                      workspaceDiagnostics |-> FALSE]],
          serverInfo |-> [name |-> "basic-lsp-server", version |-> "0.1.0"]])

\* a response that loses the id of its request
ResponseWithoutId(request_id, result) ==
    [jsonrpc |-> "2.0", id |-> JNull, result |-> result]

Response(request_id, result) ==
    [jsonrpc |-> "2.0", id |-> request_id, result |-> result]

\* an error response built on top of the result response
ErrorResponseWithResult(request_id, text) ==
    [jsonrpc |-> "2.0", id |-> request_id, result |-> JNull,
     error |-> [code |-> InternalError, message |-> text]]

ErrorResponse(request_id, text) ==
    [jsonrpc |-> "2.0", id |-> request_id,
     error |-> [code |-> InternalError, message |-> text]]

PublishNotification(uri, diagnostics) ==
    [jsonrpc |-> "2.0", method |-> "textDocument/publishDiagnostics",
     params |-> [uri |-> uri, diagnostics |-> diagnostics]]

\* send_message appends one framed message to the channel
SendMessage(out, msg) == Append(out, msg)

\* a publish_diagnostics that sends nothing
PublishNothing(out, uri, diagnostics) == out

\* publish_diagnostics(uri, diagnostics)
PublishDiagnostics(out, uri, diagnostics) ==
    SendMessage(out, PublishNotification(uri, diagnostics))

\* ------------------------------------------------------------------------
\* Document handlers.  Each yields the document map and the channel after
\* the handler, and ok = FALSE when the handler raised an Exception (the
\* map and the channel are then as the handler left them when it raised).
\* ------------------------------------------------------------------------

\* self.documents[uri] = text
Put(docs, uri, text) ==
    [u \in DOMAIN docs \cup {uri} |-> IF u = uri THEN text ELSE docs[u]]

\* a close that keeps the entry
RemoveNothing(docs, uri) == docs

\* del self.documents[uri]
Remove(docs, uri) == [u \in DOMAIN docs \ {uri} |-> docs[u]]

Effect(docs, out, ok) == [docs |-> docs, out |-> out, ok |-> ok]

\* handle_text_document_did_open(params)
DidOpen(docs, out, params) ==
    IF ~IsObj(params) THEN Effect(docs, out, FALSE)
    ELSE LET text_document == Get(params, "textDocument", EmptyObj) IN
    IF ~IsObj(text_document) THEN Effect(docs, out, FALSE)
    ELSE LET uri  == Get(text_document, "uri", JNull)
             text == Get(text_document, "text", JStr(<<>>)) IN
    IF ~Hashable(uri) THEN Effect(docs, out, FALSE)
    ELSE IF ~IsStr(text) THEN Effect(Put(docs, uri, text), out, FALSE)
    ELSE Effect(Put(docs, uri, text),
                PublishDiagnostics(out, uri, AnalyzeDocument(text[2])), TRUE)

\* the last entry instead of the first
LastChange(content_changes) == content_changes[2][Len(content_changes[2])]

\* content_changes[0]
FirstChange(content_changes) == content_changes[2][1]

\* a didChange that is a no-op for a uri that is not in the map
DidChangeOfOpened(docs, out, params) ==
    IF ~IsObj(params) THEN Effect(docs, out, FALSE)
    ELSE LET text_document == Get(params, "textDocument", EmptyObj) IN
    IF ~IsObj(text_document) THEN Effect(docs, out, FALSE)
    ELSE LET uri == Get(text_document, "uri", JNull)
             content_changes == Get(params, "contentChanges", JList(<<>>)) IN
    IF ~Truthy(content_changes) THEN Effect(docs, out, TRUE)
    ELSE IF ~IsList(content_changes) THEN Effect(docs, out, FALSE)
    ELSE LET first == FirstChange(content_changes) IN
    IF ~IsObj(first) THEN Effect(docs, out, FALSE)
    ELSE LET text == Get(first, "text", JStr(<<>>)) IN
    IF ~Hashable(uri) THEN Effect(docs, out, FALSE)
    ELSE IF uri \notin DOMAIN docs THEN Effect(docs, out, TRUE)
    ELSE IF ~IsStr(text) THEN Effect(Put(docs, uri, text), out, FALSE)
    ELSE Effect(Put(docs, uri, text),
                PublishDiagnostics(out, uri, AnalyzeDocument(text[2])), TRUE)

\* handle_text_document_did_change(params)
DidChange(docs, out, params) ==
    IF ~IsObj(params) THEN Effect(docs, out, FALSE)
    ELSE LET text_document == Get(params, "textDocument", EmptyObj) IN
    IF ~IsObj(text_document) THEN Effect(docs, out, FALSE)
    ELSE LET uri == Get(text_document, "uri", JNull)
             content_changes == Get(params, "contentChanges", JList(<<>>)) IN
    IF ~Truthy(content_changes) THEN Effect(docs, out, TRUE)
    ELSE IF ~IsList(content_changes) THEN Effect(docs, out, FALSE)
    ELSE LET first == FirstChange(content_changes) IN
    IF ~IsObj(first) THEN Effect(docs, out, FALSE)
    ELSE LET text == Get(first, "text", JStr(<<>>)) IN
    IF ~Hashable(uri) THEN Effect(docs, out, FALSE)
    ELSE IF ~IsStr(text) THEN Effect(Put(docs, uri, text), out, FALSE)
    ELSE Effect(Put(docs, uri, text),
                PublishDiagnostics(out, uri, AnalyzeDocument(text[2])), TRUE)

\* handle_text_document_did_close(params)
DidClose(docs, out, params) ==
    IF ~IsObj(params) THEN Effect(docs, out, FALSE)
    ELSE LET text_document == Get(params, "textDocument", EmptyObj) IN
    IF ~IsObj(text_document) THEN Effect(docs, out, FALSE)
    ELSE LET uri == Get(text_document, "uri", JNull) IN
    IF ~Hashable(uri) THEN Effect(docs, out, FALSE)
    ELSE Effect(Remove(docs, uri), PublishDiagnostics(out, uri, <<>>), TRUE)

\* ------------------------------------------------------------------------
\* Messages the client may send
\* ------------------------------------------------------------------------

Request(request_id, method, params) ==
    JObj([jsonrpc |-> "2.0", id |-> request_id, method |-> method,
          params |-> params])

Notification(method, params) ==
    JObj([jsonrpc |-> "2.0", method |-> method, params |-> params])

UriA == JStr("file:///a")

UriB == JStr("file:///b")

\* a uri that is a JSON array
UriList == JList(<<>>)

\* "x TODO": one TODO marker
TextTodo == JStr(<<"x", " ", "T", "O", "D", "O">>)

\* "x=1": no marker
TextPlain == JStr(<<"x", "=", "1">>)

\* a text that is a JSON number
TextInt == JInt(5)

TextDocument(uri, text) == JObj([uri |-> uri, text |-> text])

TextDocumentId(uri) == JObj([uri |-> uri])

OpenParams(uri, text) == JObj([textDocument |-> TextDocument(uri, text)])

ChangeParams(uri, changes) ==
    JObj([textDocument |-> TextDocumentId(uri), contentChanges |-> JList(changes)])

CloseParams(uri) == JObj([textDocument |-> TextDocumentId(uri)])

Change(text) == JObj([text |-> text])

DidOpenParams ==
    {OpenParams(UriA, TextTodo), OpenParams(UriA, TextPlain),
     OpenParams(UriB, TextTodo), OpenParams(UriA, TextInt),
     OpenParams(UriList, TextPlain), JNull}

DidChangeParams ==
    {ChangeParams(UriA, <<Change(TextPlain)>>),
     ChangeParams(UriA, <<Change(TextTodo), Change(TextPlain)>>),
     ChangeParams(UriB, <<Change(TextPlain), Change(TextTodo)>>),
     ChangeParams(UriA, <<>>),
     ChangeParams(UriA, <<Change(TextInt)>>),
     ChangeParams(UriA, <<JInt(5)>>)}

DidCloseParams ==
    {CloseParams(UriA), CloseParams(UriB), CloseParams(UriList), EmptyObj}

\* a method that is a JSON array
MethodList == JList(<<>>)

Requests ==
    {Request(JInt(0), JStr("initialize"), EmptyObj),
     Request(JInt(1), JStr("initialize"), EmptyObj),
     Request(JInt(1), JStr("shutdown"), EmptyObj),
     Request(JInt(1), JStr("textDocument/hover"), EmptyObj),
     Request(JInt(1), JStr("textDocument/didOpen"), OpenParams(UriA, TextTodo)),
     Request(JInt(1), JStr("exit"), EmptyObj),
     Request(JInt(1), MethodList, EmptyObj),
     JObj([jsonrpc |-> "2.0", id |-> JInt(1), result |-> JNull])}

Notifications ==
    {Notification(JStr("initialized"), EmptyObj),
     Notification(JStr("exit"), EmptyObj),
     Notification(JStr("initialize"), EmptyObj),
     Request(JNull, JStr("shutdown"), EmptyObj),
     Notification(JStr("$/cancelRequest"), EmptyObj),
     Notification(MethodList, EmptyObj)}
    \cup {Notification(JStr("textDocument/didOpen"), p) : p \in DidOpenParams}
    \cup {Notification(JStr("textDocument/didChange"), p) : p \in DidChangeParams}
    \cup {Notification(JStr("textDocument/didClose"), p) : p \in DidCloseParams}

\* read_message raised (malformed header, body that is not JSON, or JSON
\* that is not an object: the log line after json.loads calls message.get)
ReadRaises == <<"raise">>

\* what one call of read_message can produce: a decoded JSON object, None
\* (JNull), or an exception
ReadResults ==
    Requests \cup Notifications \cup {JNull, EmptyObj, ReadRaises}

\* ------------------------------------------------------------------------
\* The main loop and the dispatch
\* ------------------------------------------------------------------------

Init ==
    /\ documents = <<>>
    /\ running = TRUE
    /\ initialized = FALSE
    /\ stdout = <<>>
    /\ message = JNull
    /\ pc = "loop"
    /\ nread = 0
    /\ log = <<>>
    /\ stdin = <<>>
    /\ sent = <<>>
    /\ received = <<>>

\* run(): the fields of the message being dispatched
Method == Get(message, "method", JNull)

Params == Get(message, "params", EmptyObj)

RequestId == Get(message, "id", JNull)

\* every message is taken for a request
IsRequestAlways(request_id) == TRUE

\* a test for a truthy id, `if request_id`: the ids 0 and "" are not requests
IsRequestWhenTruthy(request_id) == Truthy(request_id)

\* run(): `if request_id is not None`
IsRequest(request_id) == request_id # JNull

\* the keys of the handler table of handle_request
RequestHandlers == {"initialize", "shutdown"}

\* the keys of the handler table of handle_notification
NotificationHandlers ==
    {"initialized", "textDocument/didOpen", "textDocument/didChange",
     "textDocument/didClose", "exit"}

\* handlers.get(method) finds an entry
Registered(handlers, method) == IsStr(method) /\ method[2] \in handlers

\* the message at hand is an object routed to handle_request
AtRequest ==
    pc = "dispatch" /\ IsObj(message) /\ IsRequest(RequestId) /\ Hashable(Method)

\* the message at hand is an object routed to handle_notification
AtNotification ==
    pc = "dispatch" /\ IsObj(message) /\ ~IsRequest(RequestId) /\ Hashable(Method)

\* a loop that does not consult running
LoopTestAlways == TRUE

\* run(): the test of `while self.running`
LoopTest == running

\* run(): `while self.running`, `message = self.read_message()`,
\* `if not message: break`, and the except clause for a read that raises
ReadMessage ==
    /\ pc = "loop"
    /\ LoopTest
    /\ nread < MaxMessages
    /\ \E r \in ReadResults :
         /\ nread' = nread + 1
         /\ IF r = ReadRaises
            THEN pc' = "error" /\ message' = message
                 /\ log' = Append(log, "Server error")
            ELSE /\ message' = r
                 /\ pc' = IF Truthy(r) THEN "dispatch" ELSE "stopped"
                 /\ log' = log
    /\ UNCHANGED <<documents, running, initialized, stdout, framing>>

\* run(): the while test fails
LeaveLoop ==
    /\ pc = "loop"
    /\ ~LoopTest
    /\ pc' = "stopped"
    /\ UNCHANGED <<documents, running, initialized, stdout, message, nread, log, framing>>

\* run(): handlers.get on a method that is not hashable (or message.get on
\* a value that is not an object) raises outside every handler's try block
\* and is caught by run()'s `except Exception`
DispatchError ==
    /\ pc = "dispatch"
    /\ IF IsObj(message) THEN ~Hashable(Method) ELSE TRUE
    /\ pc' = "error"
    /\ log' = Append(log, "Server error")
    /\ UNCHANGED <<documents, running, initialized, stdout, message, nread, framing>>

\* handle_request: the try block and its except clause both end by returning
\* to run(), whether the handler returned (ok) or raised an Exception
AfterRequestHandler(ok) == "loop"

\* a notification whose handler raised is dispatched again
AfterNotificationHandlerRetried(ok) == IF ok THEN "loop" ELSE "dispatch"

\* an Exception of a notification handler that reaches run()
AfterNotificationHandlerPropagates(ok) == IF ok THEN "loop" ELSE "error"

\* handle_notification: the same for its try block and except clause
AfterNotificationHandler(ok) == "loop"

\* The handlers of handle_request do not read params and raise on no input.
\* faults is the set of ways the call `handler(params)` may go: "none" (it
\* returns), "before" or "after" (the runtime raises an Exception in the
\* handler, before or after its assignment).  The program's own behaviour is
\* faults = {"none"}.
NoFaults == {"none"}

RuntimeFaults == {"none", "before", "after"}

\* an initialize that flips the flag
InitializedToggled(was) == ~was

\* handle_initialize: `self.initialized = True`, whatever it was
InitializedAfter(was) == TRUE

\* handle_request for method initialize, with handle_initialize
HandleInitialize(faults) ==
    /\ AtRequest
    /\ Method = JStr("initialize")
    /\ Registered(RequestHandlers, Method)
    /\ \E f \in faults :
         /\ initialized' = IF f = "before" THEN initialized
                           ELSE InitializedAfter(initialized)
         /\ log' = IF f = "none" THEN log
                   ELSE Append(log, "Error handling request")
         /\ stdout' = SendMessage(stdout,
                IF f = "none" THEN Response(RequestId, InitializeResult)
                ELSE ErrorResponse(RequestId, f))
         /\ pc' = AfterRequestHandler(f = "none")
    /\ UNCHANGED <<documents, running, message, nread, framing>>

\* handle_request for method shutdown, with handle_shutdown
HandleShutdown(faults) ==
    /\ AtRequest
    /\ Method = JStr("shutdown")
    /\ Registered(RequestHandlers, Method)
    /\ \E f \in faults :
         /\ running' = IF f = "before" THEN running ELSE FALSE
         /\ log' = IF f = "none" THEN log
                   ELSE Append(log, "Error handling request")
         /\ stdout' = SendMessage(stdout,
                IF f = "none" THEN Response(RequestId, JNull)
                ELSE ErrorResponse(RequestId, f))
         /\ pc' = AfterRequestHandler(f = "none")
    /\ UNCHANGED <<documents, initialized, message, nread, framing>>

\* handle_request: no handler for the method
UnknownRequest ==
    /\ AtRequest
    /\ ~Registered(RequestHandlers, Method)
    /\ pc' = "loop"
    /\ log' = Append(log, "Unknown request method")
    /\ UNCHANGED <<documents, running, initialized, stdout, message, nread, framing>>

\* handle_notification for method initialized
HandleInitialized ==
    /\ AtNotification
    /\ Method = JStr("initialized")
    /\ Registered(NotificationHandlers, Method)
    /\ pc' = AfterNotificationHandler(TRUE)
    /\ UNCHANGED <<documents, running, initialized, stdout, message, nread, log, framing>>

\* handle_notification: the try block around a document handler.  An
\* Exception of the handler is caught and logged; what the handler did before
\* it raised stays.
Caught(effect) ==
    /\ documents' = effect.docs
    /\ stdout' = effect.out
    /\ log' = IF effect.ok THEN log
              ELSE Append(log, "Error handling notification")
    /\ pc' = AfterNotificationHandler(effect.ok)

\* handle_notification for method textDocument/didOpen
HandleDidOpen ==
    /\ AtNotification
    /\ Method = JStr("textDocument/didOpen")
    /\ Registered(NotificationHandlers, Method)
    /\ \E effect \in {DidOpen(documents, stdout, Params)} : Caught(effect)
    /\ UNCHANGED <<running, initialized, message, nread, framing>>

\* handle_notification for method textDocument/didChange
HandleDidChange ==
    /\ AtNotification
    /\ Method = JStr("textDocument/didChange")
    /\ Registered(NotificationHandlers, Method)
    /\ \E effect \in {DidChange(documents, stdout, Params)} : Caught(effect)
    /\ UNCHANGED <<running, initialized, message, nread, framing>>

\* handle_notification for method textDocument/didClose
HandleDidClose ==
    /\ AtNotification
    /\ Method = JStr("textDocument/didClose")
    /\ Registered(NotificationHandlers, Method)
    /\ \E effect \in {DidClose(documents, stdout, Params)} : Caught(effect)
    /\ UNCHANGED <<running, initialized, message, nread, framing>>

\* a SystemExit that handle_notification catches like an Exception
AfterExitCaught == "loop"

\* where sys.exit(0) leaves the program: SystemExit is not an Exception, so
\* neither handle_notification nor run() catches it
AfterExit == "exited"

\* handle_notification for method exit: sys.exit(0) raises SystemExit, which
\* no except clause catches
HandleExit ==
    /\ AtNotification
    /\ Method = JStr("exit")
    /\ Registered(NotificationHandlers, Method)
    /\ pc' = AfterExit
    /\ UNCHANGED <<documents, running, initialized, stdout, message, nread, log, framing>>

\* handle_notification: no handler for the method
UnknownNotification ==
    /\ AtNotification
    /\ ~Registered(NotificationHandlers, Method)
    /\ pc' = "loop"
    /\ log' = Append(log, "Unknown notification method")
    /\ UNCHANGED <<documents, running, initialized, stdout, message, nread, framing>>

Next ==
    \/ ReadMessage
    \/ LeaveLoop
    \/ DispatchError
    \/ HandleInitialize(NoFaults)
    \/ HandleShutdown(NoFaults)
    \/ UnknownRequest
    \/ HandleInitialized
    \/ HandleDidOpen
    \/ HandleDidChange
    \/ HandleDidClose
    \/ HandleExit
    \/ UnknownNotification

Spec == Init /\ [][Next]_vars

\* the same program on a runtime that may raise inside a request handler
NextFault ==
    \/ ReadMessage
    \/ LeaveLoop
    \/ DispatchError
    \/ HandleInitialize(RuntimeFaults)
    \/ HandleShutdown(RuntimeFaults)
    \/ UnknownRequest
    \/ HandleInitialized
    \/ HandleDidOpen
    \/ HandleDidChange
    \/ HandleDidClose
    \/ HandleExit
    \/ UnknownNotification

SpecFault == Init /\ [][NextFault]_vars

\* ------------------------------------------------------------------------
\* A client that only opens documents, with texts that exercise every check
\* of analyze_document
\* ------------------------------------------------------------------------

\* the character c, n times
Rep(c, n) == [i \in 1..n |-> c]

\* two words with a separator between them; the words: nothing, TODO, tOdo,
\* FIXME, fixMe, a; the separators: nothing, a blank, an underscore, a colon
ShortLines ==
    LET Words == {<<>>, TODO, <<"t", "O", "d", "o">>, FIXME,
                  <<"f", "i", "x", "M", "e">>, <<"a">>}
        Separators == {<<>>, <<" ">>, <<"_">>, <<":">>}
    IN  {w1 \o sep \o w2 : w1 \in Words, sep \in Separators, w2 \in Words}

\* head, filled with x up to n characters
Filled(head, n) == head \o Rep("x", n - Len(head))

\* lines of 120, 121 and 125 characters, with and without markers
LongLines ==
    {Filled(head, n) : head \in {<<>>, TODO \o <<" ">> \o FIXME \o <<" ">>},
                       n \in {MaxLineLength, MaxLineLength + 1, MaxLineLength + 5}}

\* the lines of the texts of two lines
PairLines ==
    {<<>>, <<" ">>, TODO,
     Filled(TODO \o <<" ">> \o FIXME \o <<" ">>, MaxLineLength + 5)}

\* the texts of one line, of two lines, and of three lines that make runs of
\* identical lines: empty, blank, "x=1" and " x=1"
AnalyzeTexts ==
    LET RunLines == {<<>>, <<" ">>, <<"x", "=", "1">>, <<" ", "x", "=", "1">>}
        \* "aTODO TODO tOdo FIXMEa fixme:FIXME": each marker first inside a
        \* longer word and then twice as a word
        Repeated == <<"a", "T", "O", "D", "O", " ", "T", "O", "D", "O", " ",
                      "t", "O", "d", "o", " ", "F", "I", "X", "M", "E", "a", " ",
                      "f", "i", "x", "m", "e", ":", "F", "I", "X", "M", "E">>
    IN  ShortLines \cup LongLines \cup {Repeated}
            \cup {l1 \o <<"\n">> \o l2 : l1 \in PairLines, l2 \in PairLines}
            \cup {l1 \o <<"\n">> \o l2 \o <<"\n">> \o l3 :
                      l1 \in RunLines, l2 \in RunLines, l3 \in RunLines}

\* the number of documents the client opens
MaxOpens == 1

\* read_message returns a didOpen notification for one of the texts
ReadOpen ==
    /\ pc = "loop"
    /\ LoopTest
    /\ nread < MaxOpens
    /\ \E text \in AnalyzeTexts :
         message' = Notification(JStr("textDocument/didOpen"),
                                 OpenParams(UriA, JStr(text)))
    /\ nread' = nread + 1
    /\ pc' = "dispatch"
    /\ UNCHANGED <<documents, running, initialized, stdout, log, framing>>

NextAnalyze ==
    \/ ReadOpen
    \/ HandleDidOpen

SpecAnalyze == Init /\ [][NextAnalyze]_vars

\* ------------------------------------------------------------------------
\* Characters, and JSON text: json.dumps and json.loads
\* ------------------------------------------------------------------------

Quote == "\""

Backslash == "\\"

\* the characters outside ASCII among those the model uses: e with acute
\* accent (U+00E9) and the euro sign (U+20AC), each one character
NonAscii == {"U+00E9", "U+20AC"}

\* ord(c) of a character outside ASCII
CodePoint(c) == CASE c = "U+00E9" -> 233 [] c = "U+20AC" -> 8364

\* len(c.encode('utf-8'))
Utf8Len(c) ==
    IF c \notin NonAscii THEN 1 ELSE IF CodePoint(c) < 2048 THEN 2 ELSE 3

\* len(s.encode('utf-8'))
ByteLength(s) ==
    LET Count(c) == Cardinality({i \in 1..Len(s) : s[i] = c})
    IN  Len(s) + Count("U+00E9") * (Utf8Len("U+00E9") - 1)
               + Count("U+20AC") * (Utf8Len("U+20AC") - 1)

DecimalDigits == <<"0", "1", "2", "3", "4", "5", "6", "7", "8", "9">>

HexDigits == DecimalDigits \o <<"a", "b", "c", "d", "e", "f">>

\* the position of c in digits, less one
DigitValue(digits, c) == CHOOSE k \in 0..(Len(digits) - 1) : digits[k + 1] = c

IsDigit(c) == \E k \in 1..Len(DecimalDigits) : DecimalDigits[k] = c

RECURSIVE Digits(_)
\* str(n) of an integer n
Digits(n) ==
    IF n < 0 THEN <<"-">> \o Digits(0 - n)
    ELSE IF n < 10 THEN <<DecimalDigits[n + 1]>>
    ELSE Digits(n \div 10) \o <<DecimalDigits[(n % 10) + 1]>>

RECURSIVE Number(_)
\* the number written by a run of decimal digits
Number(ds) ==
    IF ds = <<>> THEN 0
    ELSE 10 * Number(SubSeq(ds, 1, Len(ds) - 1))
             + DigitValue(DecimalDigits, ds[Len(ds)])

\* '%04x' % n
Hex4(n) ==
    <<HexDigits[((n \div 4096) % 16) + 1], HexDigits[((n \div 256) % 16) + 1],
      HexDigits[((n \div 16) % 16) + 1], HexDigits[(n % 16) + 1]>>

\* a dict whose keys are sequences of characters: the <<key, value>> pairs
\* in insertion order
JDict(pairs) == <<"dict", pairs>>

JBool(b) == <<"bool", b>>

\* json.dumps: how one character of a string is written
Escape(c, ensure_ascii) ==
    CASE c = Quote -> <<Backslash, Quote>>
      [] c = Backslash -> <<Backslash, Backslash>>
      [] c = "\n" -> <<Backslash, "n">>
      [] c = "\r" -> <<Backslash, "r">>
      [] c = "\t" -> <<Backslash, "t">>
      [] c \in NonAscii /\ ensure_ascii -> <<Backslash, "u">> \o Hex4(CodePoint(c))
      [] OTHER -> <<c>>

RECURSIVE EscapeAll(_, _)
EscapeAll(s, ensure_ascii) ==
    IF s = <<>> THEN <<>>
    ELSE Escape(s[1], ensure_ascii) \o EscapeAll(Tail(s), ensure_ascii)

DumpsString(s, ensure_ascii) ==
    <<Quote>> \o EscapeAll(s, ensure_ascii) \o <<Quote>>

RECURSIVE DumpsWith(_, _), DumpsItems(_, _), DumpsMembers(_, _)
\* json.dumps(v, ensure_ascii=...) with the default separators ", " and ": "
DumpsWith(v, ensure_ascii) ==
    CASE Tag(v) = "null" -> <<"n", "u", "l", "l">>
      [] Tag(v) = "bool" -> IF v[2] THEN <<"t", "r", "u", "e">>
                            ELSE <<"f", "a", "l", "s", "e">>
      [] Tag(v) = "int"  -> Digits(v[2])
      [] Tag(v) = "str"  -> DumpsString(v[2], ensure_ascii)
      [] Tag(v) = "list" -> <<"[">> \o DumpsItems(v[2], ensure_ascii) \o <<"]">>
      [] Tag(v) = "dict" -> <<"{">> \o DumpsMembers(v[2], ensure_ascii) \o <<"}">>

DumpsItems(items, ensure_ascii) ==
    IF items = <<>> THEN <<>>
    ELSE DumpsWith(items[1], ensure_ascii)
           \o (IF Len(items) = 1 THEN <<>>
               ELSE <<",", " ">> \o DumpsItems(Tail(items), ensure_ascii))

DumpsMembers(pairs, ensure_ascii) ==
    IF pairs = <<>> THEN <<>>
    ELSE DumpsString(pairs[1][1], ensure_ascii) \o <<":", " ">>
           \o DumpsWith(pairs[1][2], ensure_ascii)
           \o (IF Len(pairs) = 1 THEN <<>>
               ELSE <<",", " ">> \o DumpsMembers(Tail(pairs), ensure_ascii))

\* a json.dumps that writes the characters outside ASCII as they are
EnsureAsciiOff == FALSE

\* the default of json.dumps: ensure_ascii=True
EnsureAscii == TRUE

\* json.dumps(v), as send_message calls it
Dumps(v) == DumpsWith(v, EnsureAscii)

\* the outcome of parsing a value of s: the value and the index after it,
\* or a failure (json.JSONDecodeError)
Parsed(v, i) == [ok |-> TRUE, v |-> v, i |-> i]

Failed == [ok |-> FALSE, v |-> JNull, i |-> 0]

\* the first index from i on that holds no whitespace, Len(s) + 1 if none
SkipWhitespace(s, i) ==
    LET JsonWhitespace == {" ", "\t", "\n", "\r"}
    IN  CHOOSE j \in i..(Len(s) + 1) :
            /\ j = Len(s) + 1 \/ s[j] \notin JsonWhitespace
            /\ \A k \in i..(j - 1) : s[k] \in JsonWhitespace

\* word stands in s at index i
StandsAt(s, i, word) ==
    /\ i + Len(word) - 1 <= Len(s)
    /\ SubSeq(s, i, i + Len(word) - 1) = word

\* an integer at index i: an optional minus sign, then 0 or digits that do
\* not start with 0
ParseInt(s, i) ==
    LET first == IF s[i] = "-" THEN i + 1 ELSE i
        \* the index after the run of decimal digits that starts at first
        end   == CHOOSE j \in first..(Len(s) + 1) :
                     /\ j = Len(s) + 1 \/ ~IsDigit(s[j])
                     /\ \A k \in first..(j - 1) : IsDigit(s[k])
        ds    == SubSeq(s, first, end - 1)
    IN  IF ds = <<>> THEN Failed
        ELSE IF Len(ds) > 1 /\ ds[1] = "0" THEN Failed
        ELSE Parsed(JInt(IF first = i THEN Number(ds) ELSE 0 - Number(ds)), end)

\* the four characters at i are hexadecimal digits
HexAt(s, i) ==
    /\ i + 3 <= Len(s)
    /\ \A k \in i..(i + 3) : \E d \in 1..Len(HexDigits) : HexDigits[d] = s[k]

\* chr(int(s[i:i+4], 16)), for the code points of the model
Unescaped(s, i) ==
    LET n == DigitValue(HexDigits, s[i]) * 4096
               + DigitValue(HexDigits, s[i + 1]) * 256
               + DigitValue(HexDigits, s[i + 2]) * 16
               + DigitValue(HexDigits, s[i + 3])
    IN  CHOOSE c \in NonAscii : CodePoint(c) = n

RECURSIVE ParseChars(_, _, _)
\* the rest of a string whose opening quote stands before index i; acc is
\* what has been read of it
ParseChars(s, i, acc) ==
    IF i > Len(s) THEN Failed
    ELSE IF s[i] = Quote THEN Parsed(JStr(acc), i + 1)
    ELSE IF s[i] \in {"\n", "\r", "\t"} THEN Failed
    ELSE IF s[i] # Backslash THEN ParseChars(s, i + 1, Append(acc, s[i]))
    ELSE IF i + 1 > Len(s) THEN Failed
    ELSE IF s[i + 1] \in {Quote, Backslash, "/"}
         THEN ParseChars(s, i + 2, Append(acc, s[i + 1]))
    ELSE IF s[i + 1] = "n" THEN ParseChars(s, i + 2, Append(acc, "\n"))
    ELSE IF s[i + 1] = "r" THEN ParseChars(s, i + 2, Append(acc, "\r"))
    ELSE IF s[i + 1] = "t" THEN ParseChars(s, i + 2, Append(acc, "\t"))
    ELSE IF s[i + 1] = "u" /\ HexAt(s, i + 2)
         THEN ParseChars(s, i + 6, Append(acc, Unescaped(s, i + 2)))
    ELSE Failed

\* d[key] = value on the pairs of a dict: a key that is there keeps its place
PutPair(pairs, key, value) ==
    IF \E k \in 1..Len(pairs) : pairs[k][1] = key
    THEN [k \in 1..Len(pairs) |->
             IF pairs[k][1] = key THEN <<key, value>> ELSE pairs[k]]
    ELSE Append(pairs, <<key, value>>)

RECURSIVE ParseValue(_, _), ParseItems(_, _, _), ParseMembers(_, _, _)
\* the JSON value that starts at index i of s
ParseValue(s, i) ==
    IF i > Len(s) THEN Failed
    ELSE IF s[i] = "{"
         THEN LET j == SkipWhitespace(s, i + 1)
              IN  IF j <= Len(s) /\ s[j] = "}" THEN Parsed(JDict(<<>>), j + 1)
                  ELSE ParseMembers(s, j, <<>>)
    ELSE IF s[i] = "["
         THEN LET j == SkipWhitespace(s, i + 1)
              IN  IF j <= Len(s) /\ s[j] = "]" THEN Parsed(JList(<<>>), j + 1)
                  ELSE ParseItems(s, j, <<>>)
    ELSE IF s[i] = Quote THEN ParseChars(s, i + 1, <<>>)
    ELSE IF StandsAt(s, i, <<"n", "u", "l", "l">>) THEN Parsed(JNull, i + 4)
    ELSE IF StandsAt(s, i, <<"t", "r", "u", "e">>) THEN Parsed(JBool(TRUE), i + 4)
    ELSE IF StandsAt(s, i, <<"f", "a", "l", "s", "e">>)
         THEN Parsed(JBool(FALSE), i + 5)
    ELSE IF s[i] = "-" \/ IsDigit(s[i]) THEN ParseInt(s, i)
    ELSE Failed

\* the items of a list from index i on; acc holds the items before
ParseItems(s, i, acc) ==
    LET item == ParseValue(s, i)
        j    == SkipWhitespace(s, item.i)
    IN  IF ~item.ok \/ j > Len(s) THEN Failed
        ELSE IF s[j] = "]" THEN Parsed(JList(Append(acc, item.v)), j + 1)
        ELSE IF s[j] = ","
             THEN ParseItems(s, SkipWhitespace(s, j + 1), Append(acc, item.v))
        ELSE Failed

\* the members of an object from index i on; acc holds the pairs before
ParseMembers(s, i, acc) ==
    IF i > Len(s) \/ s[i] # Quote THEN Failed
    ELSE LET key   == ParseChars(s, i + 1, <<>>)
             colon == SkipWhitespace(s, key.i)
         IN  IF ~key.ok \/ colon > Len(s) \/ s[colon] # ":" THEN Failed
             ELSE LET value == ParseValue(s, SkipWhitespace(s, colon + 1))
                      j     == SkipWhitespace(s, value.i)
                      pairs == PutPair(acc, key.v[2], value.v)
                  IN  IF ~value.ok \/ j > Len(s) THEN Failed
                      ELSE IF s[j] = "}" THEN Parsed(JDict(pairs), j + 1)
                      ELSE IF s[j] = ","
                           THEN ParseMembers(s, SkipWhitespace(s, j + 1), pairs)
                      ELSE Failed

\* json.loads(s): one value, with nothing but whitespace around it
Loads(s) ==
    LET value == ParseValue(s, SkipWhitespace(s, 1))
    IN  IF value.ok /\ SkipWhitespace(s, value.i) = Len(s) + 1 THEN value
        ELSE Failed


\* ------------------------------------------------------------------------
\* Framing: send_message and read_message on characters
\* ------------------------------------------------------------------------

\* "Content-Length"
ContentLength ==
    <<"C", "o", "n", "t", "e", "n", "t", "-", "L", "e", "n", "g", "t", "h">>

\* "\r\n"
CRLF == <<"\r", "\n">>

\* send_message(message): what it writes to sys.stdout
Frame(value) ==
    LET content        == Dumps(value)
        content_length == ByteLength(content)
    IN  ContentLength \o <<":", " ">> \o Digits(content_length) \o CRLF \o CRLF
            \o content

\* sys.stdin.readline(): the characters up to and with the first newline,
\* all of s when it has none
ReadLine(s) ==
    LET newlines == {i \in 1..Len(s) : s[i] = "\n"}
    IN  IF newlines = {} THEN s
        ELSE SubSeq(s, 1, CHOOSE i \in newlines : \A j \in newlines : i <= j)

\* s without its first n characters
Drop(s, n) == SubSeq(s, n + 1, Len(s))

\* line.strip()
Strip(line) ==
    LET kept == {i \in 1..Len(line) : line[i] \notin Whitespace}
    IN  IF kept = {} THEN <<>>
        ELSE SubSeq(line, CHOOSE i \in kept : \A j \in kept : i <= j,
                          CHOOSE i \in kept : \A j \in kept : j <= i)

\* the index of the first ": " of line, 0 when it has none
SeparatorIndex(line) ==
    LET found == {i \in 1..(Len(line) - 1) : line[i] = ":" /\ line[i + 1] = " "}
    IN  IF found = {} THEN 0 ELSE CHOOSE i \in found : \A j \in found : i <= j

RECURSIVE ReadHeaders(_, _)
\* the header loop of read_message on the characters s, headers being the
\* dict so far: how it ends ("eof": readline returned nothing, "raise": the
\* split gave one piece, "body": the empty line was read), the headers and
\* the characters left
ReadHeaders(s, headers) ==
    LET line     == ReadLine(s)
        rest     == Drop(s, Len(line))
        stripped == Strip(line)
        colon    == SeparatorIndex(stripped)
    IN  IF line = <<>> THEN [end |-> "eof", headers |-> headers, rest |-> rest]
        ELSE IF stripped = <<>>
             THEN [end |-> "body", headers |-> headers, rest |-> rest]
        ELSE IF colon = 0
             THEN [end |-> "raise", headers |-> headers, rest |-> rest]
        ELSE ReadHeaders(rest, Put(headers, SubSeq(stripped, 1, colon - 1),
                                   Drop(stripped, colon + 1)))

\* int(value) accepts value: an optional sign and decimal digits
IsInteger(value) ==
    /\ value # <<>>
    /\ LET ds == IF value[1] \in {"-", "+"} THEN Tail(value) ELSE value
       IN  ds # <<>> /\ \A k \in 1..Len(ds) : IsDigit(ds[k])

\* int(value)
IntegerOf(value) ==
    IF value[1] = "-" THEN 0 - Number(Tail(value))
    ELSE IF value[1] = "+" THEN Number(Tail(value))
    ELSE Number(value)

\* what read_message returns (None is JNull) or ReadRaises, and the
\* characters it leaves unread
Outcome(result, rest) == [result |-> result, rest |-> rest]

\* sys.stdin.read(n) on the text stream s: n characters, fewer at the end
\* of the stream, all of them when n is negative
ReadCharacters(s, n) ==
    IF n < 0 \/ n > Len(s) THEN s ELSE SubSeq(s, 1, n)

\* read_message() on the characters s
ReadMessageFrom(s) ==
    LET head == ReadHeaders(s, <<>>)
        value == IF ContentLength \in DOMAIN head.headers
                 THEN head.headers[ContentLength] ELSE <<"0">>
        content_length == IntegerOf(value)
        content == ReadCharacters(head.rest, content_length)
        rest    == Drop(head.rest, Len(content))
        loaded  == Loads(content)
    IN  IF head.end = "eof" THEN Outcome(JNull, head.rest)
        ELSE IF head.end = "raise" THEN Outcome(ReadRaises, head.rest)
        ELSE IF ~IsInteger(value) THEN Outcome(ReadRaises, head.rest)
        ELSE IF content_length = 0 THEN Outcome(JNull, head.rest)
        ELSE IF ~loaded.ok THEN Outcome(ReadRaises, rest)
        ELSE IF Tag(loaded.v) # "dict" THEN Outcome(ReadRaises, rest)
        ELSE Outcome(loaded.v, rest)


\* ------------------------------------------------------------------------
\* The channel from a writer of frames to read_message
\* ------------------------------------------------------------------------

\* message values: flat and nested objects, lists, numbers, null, booleans,
\* empty and non-ASCII strings
Payloads ==
    {JDict(<<>>),
     JDict(<< <<<<"i", "d">>, JInt(0)>>, <<<<"r">>, JNull>> >>),
     JDict(<< <<<<"i", "d">>, JInt(12)>>,
              <<<<"r">>, JDict(<< <<<<"t">>, JStr(<<"a", Quote, Backslash, "U+00E9", "U+20AC">>)>>,
                                  <<<<"l">>, JList(<<JInt(0 - 7), JBool(TRUE)>>)>> >>)>> >>),
     JDict(<< <<<<"t">>, JStr(<<"U+00E9">>)>> >>),
     JDict(<< <<<<"t">>, JStr(<<>>)>>, <<<<"U+20AC">>, JList(<<>>)>> >>),
     JDict(<< <<<<"t">>, JStr(<<"\n">>)>>, <<<<"b">>, JBool(FALSE)>> >>)}

\* the number of frames written to the channel
MaxFrames == 2

\* send_message(value) writes its frame to a channel that read_message
\* reads
WriteFrame ==
    /\ Len(sent) < MaxFrames
    /\ \E value \in Payloads :
         /\ stdin' = stdin \o Frame(value)
         /\ sent' = Append(sent, value)
    /\ UNCHANGED <<documents, running, initialized, stdout, message, pc, nread,
                   log, received>>

\* read_message() on the channel, when there is something to read
ReadFrame ==
    /\ stdin # <<>>
    /\ LET read == ReadMessageFrom(stdin)
       IN  /\ received' = Append(received, read.result)
           /\ stdin' = read.rest
    /\ UNCHANGED <<documents, running, initialized, stdout, message, pc, nread,
                   log, sent>>

NextRoundTrip ==
    \/ WriteFrame
    \/ ReadFrame

SpecRoundTrip == Init /\ [][NextRoundTrip]_vars


\* ------------------------------------------------------------------------
\* A client that writes correctly framed messages to the server's input
\* ------------------------------------------------------------------------

\* the header is Content-Length alone, or has Content-Type before or after
HeaderLayouts == {"length", "type-length", "length-type"}

\* a frame as a client writes it: the body is json.dumps(value), with or
\* without ensure_ascii, and Content-Length is its length in UTF-8 bytes
ClientFrame(value, layout, ensure_ascii) ==
    LET content == DumpsWith(value, ensure_ascii)
        length  == ContentLength \o <<":", " ">> \o Digits(ByteLength(content))
                     \o CRLF
        \* "Content-Type: x"
        type    == <<"C", "o", "n", "t", "e", "n", "t", "-", "T", "y", "p", "e",
                     ":", " ", "x">> \o CRLF
        headers == CASE layout = "length" -> length
                     [] layout = "type-length" -> type \o length
                     [] layout = "length-type" -> length \o type
    IN  headers \o CRLF \o content

\* the client writes one more frame to the server's input
ClientWrite ==
    /\ Len(sent) < MaxFrames
    /\ \E value \in Payloads, layout \in HeaderLayouts, ensure_ascii \in BOOLEAN :
         /\ stdin' = stdin \o ClientFrame(value, layout, ensure_ascii)
         /\ sent' = Append(sent, value)
    /\ UNCHANGED <<documents, running, initialized, stdout, message, pc, nread,
                   log, received>>

NextClient ==
    \/ ClientWrite
    \/ ReadFrame

SpecClient == Init /\ [][NextClient]_vars


\* ------------------------------------------------------------------------
\* The main loop on a finite stream of characters
\* ------------------------------------------------------------------------

RECURSIVE Join(_)
\* the characters of chars as one string
Join(chars) == IF chars = <<>> THEN "" ELSE chars[1] \o Join(Tail(chars))

RECURSIVE Decoded(_, _)
\* the value v that json.loads returned, standing under the key of that
\* name, as the handlers of this model take it: an object is a record, a
\* string is one string, a text stays a sequence of characters
Decoded(v, name) ==
    CASE Tag(v) = "str"  -> IF name = "text" THEN v ELSE JStr(Join(v[2]))
      [] Tag(v) = "list" -> JList([k \in 1..Len(v[2]) |-> Decoded(v[2][k], "")])
      [] Tag(v) = "dict" ->
            JObj([key \in {Join(v[2][k][1]) : k \in 1..Len(v[2])} |->
                    LET k == CHOOSE k \in 1..Len(v[2]) : Join(v[2][k][1]) = key
                    IN  Decoded(v[2][k][2], key)])
      [] OTHER -> v

\* {"method": "textDocument/didOpen",
\*  "params": {"textDocument": {"uri": "file:///a", "text": "x TODO"}}}
WireDidOpen ==
    JDict(<< <<<<"m", "e", "t", "h", "o", "d">>,
               JStr(<<"t", "e", "x", "t", "D", "o", "c", "u", "m", "e", "n", "t",
                      "/", "d", "i", "d", "O", "p", "e", "n">>)>>,
             <<<<"p", "a", "r", "a", "m", "s">>,
               JDict(<< <<<<"t", "e", "x", "t", "D", "o", "c", "u", "m", "e", "n",
                            "t">>,
                          JDict(<< <<<<"u", "r", "i">>,
                                     JStr(<<"f", "i", "l", "e", ":", "/", "/",
                                            "/", "a">>)>>,
                                   <<<<"t", "e", "x", "t">>, TextTodo>> >>)>> >>)>> >>)

\* a frame whose header line has no ": "
HeaderWithoutColon ==
    ContentLength \o <<" ", "2">> \o CRLF \o CRLF \o <<"{", "}">>

\* a frame whose body is not JSON
BodyNotJson ==
    ContentLength \o <<":", " ", "4">> \o CRLF \o CRLF \o <<"{", "b", "a", "d">>

\* a frame that declares a body of length 0
ZeroLengthFrame == ContentLength \o <<":", " ", "0">> \o CRLF \o CRLF

\* a header line that the end of the stream cuts short
TruncatedHeader == SubSeq(ContentLength, 1, 11)

\* what a stream is put together from: the frames of
\* {"id": 1, "method": "initialize"}, of {"id": 2, "method": "shutdown"} and
\* of the didOpen, and the four pieces above
Pieces ==
    LET method == <<"m", "e", "t", "h", "o", "d">>
        WireInitialize ==
            JDict(<< <<<<"i", "d">>, JInt(1)>>,
                     <<method, JStr(<<"i", "n", "i", "t", "i", "a", "l", "i", "z",
                                      "e">>)>> >>)
        WireShutdown ==
            JDict(<< <<<<"i", "d">>, JInt(2)>>,
                     <<method, JStr(<<"s", "h", "u", "t", "d", "o", "w", "n">>)>> >>)
    IN  {Frame(WireInitialize), Frame(WireShutdown), Frame(WireDidOpen),
         HeaderWithoutColon, BodyNotJson, ZeroLengthFrame, TruncatedHeader}

\* the number of pieces of a stream
MaxPieces == 3

RECURSIVE StreamsOf(_)
\* the streams of at most n pieces
StreamsOf(n) ==
    IF n = 0 THEN {<<>>}
    ELSE StreamsOf(n - 1) \cup {p \o s : p \in Pieces, s \in StreamsOf(n - 1)}

\* a read that raised is skipped, and the loop goes on with the next read
AfterReadRaisedGoesOn == "loop"

\* run(): an Exception of read_message ends the loop in `except Exception`
AfterReadRaised == "error"

InitStream ==
    /\ documents = <<>>
    /\ running = TRUE
    /\ initialized = FALSE
    /\ stdout = <<>>
    /\ message = JNull
    /\ pc = "loop"
    /\ nread = 0
    /\ log = <<>>
    /\ stdin \in StreamsOf(MaxPieces)
    /\ sent = <<>>
    /\ received = <<>>

\* read_message() on the characters s, the message in the shape the
\* handlers take
Reading(s) ==
    LET read == ReadMessageFrom(s)
    IN  Outcome(IF read.result = ReadRaises THEN ReadRaises
                ELSE Decoded(read.result, ""), read.rest)

\* Reading on each of the streams, worked out once
Readings == [s \in StreamsOf(MaxPieces) |-> Reading(s)]

\* run(): the while test holds and read_message() reads from sys.stdin
ReadStream ==
    /\ pc = "loop"
    /\ LoopTest
    /\ \E read \in {IF stdin \in DOMAIN Readings THEN Readings[stdin]
                     ELSE Reading(stdin)} :
           /\ stdin' = read.rest
           /\ nread' = nread + 1
           /\ IF read.result = ReadRaises
              THEN /\ pc' = AfterReadRaised
                   /\ message' = message
                   /\ log' = Append(log, "Server error")
              ELSE /\ message' = read.result
                   /\ pc' = IF Truthy(read.result) THEN "dispatch" ELSE "stopped"
                   /\ log' = log
    /\ UNCHANGED <<documents, running, initialized, stdout, sent, received>>

NextStream ==
    \/ ReadStream
    \/ LeaveLoop
    \/ HandleInitialize(NoFaults)
    \/ HandleShutdown(NoFaults)
    \/ HandleDidOpen

SpecStream == InitStream /\ [][NextStream]_vars

\* the loop is sequential code that runs on: a step that can be taken is
\* taken
FairSpecStream == SpecStream /\ WF_vars(NextStream)


\* ------------------------------------------------------------------------
\* A client that sends every method name in every kind of message: without
\* an id, with id null, and with the ids 0 and "a"
\* ------------------------------------------------------------------------

RoutedMessages ==
    LET Named == {<<"initialize", EmptyObj>>,
                  <<"shutdown", EmptyObj>>,
                  <<"initialized", EmptyObj>>,
                  <<"exit", EmptyObj>>,
                  <<"textDocument/didOpen", OpenParams(UriA, TextTodo)>>,
                  <<"textDocument/didChange",
                    ChangeParams(UriA, <<Change(TextPlain)>>)>>,
                  <<"textDocument/didClose", CloseParams(UriA)>>}
    IN  {Notification(JStr(n[1]), n[2]) : n \in Named}
            \cup {Request(id, JStr(n[1]), n[2]) :
                      id \in {JNull, JInt(0), JStr("a")}, n \in Named}

\* the number of messages this client sends
MaxRouted == 2

\* read_message returns one of the client's messages
ReadRouted ==
    /\ pc = "loop"
    /\ LoopTest
    /\ nread < MaxRouted
    /\ \E r \in RoutedMessages : message' = r
    /\ nread' = nread + 1
    /\ pc' = "dispatch"
    /\ UNCHANGED <<documents, running, initialized, stdout, log, framing>>

NextRouting ==
    \/ ReadRouted
    \/ LeaveLoop
    \/ HandleInitialize(NoFaults)
    \/ HandleShutdown(NoFaults)
    \/ UnknownRequest
    \/ HandleInitialized
    \/ HandleDidOpen
    \/ HandleDidChange
    \/ HandleDidClose
    \/ HandleExit
    \/ UnknownNotification

SpecRouting == Init /\ [][NextRouting]_vars


\* ------------------------------------------------------------------------
\* Vocabulary of the properties, read off the raw message and the channel
\* ------------------------------------------------------------------------

Field(v, key) == IF IsObj(v) /\ key \in DOMAIN v[2] THEN v[2][key] ELSE JNull

HasId == IsObj(message) /\ Field(message, "id") # JNull

NoId == IsObj(message) /\ Field(message, "id") = JNull

DecodedRequest == pc = "dispatch" /\ HasId

DecodedNotification == pc = "dispatch" /\ NoId

MethodIn(names) == \E n \in names : Field(message, "method") = JStr(n)

RequestMethods == {"initialize", "shutdown"}

DocumentMethods ==
    {"textDocument/didOpen", "textDocument/didChange", "textDocument/didClose"}

NotificationMethods == DocumentMethods \cup {"initialized", "exit"}

IsResponse(m) == "id" \in DOMAIN m

IsPublish(m) ==
    /\ "id" \notin DOMAIN m
    /\ "method" \in DOMAIN m
    /\ m.method = "textDocument/publishDiagnostics"

Last(seq) == seq[Len(seq)]

\* this step only appends to the channel
Extends == Len(stdout') >= Len(stdout) /\ SubSeq(stdout', 1, Len(stdout)) = stdout

\* this step appends exactly one message to the channel
WritesOne == Len(stdout') = Len(stdout) + 1 /\ Extends

\* this step appends exactly this record to the log
Logs(records) ==
    /\ Len(log') = Len(log) + 1
    /\ SubSeq(log', 1, Len(log)) = log
    /\ Last(log') \in records

HandlerErrors == {"Error handling request", "Error handling notification"}

\* ------------------------------------------------------------------------
\* Properties
\* ------------------------------------------------------------------------

\* C1: the dispatch of a request whose method is initialize or shutdown (the
\* handler returning) appends exactly one message to the channel, a response
\* with the request's id and a result and no error, within the dispatch step
\* (no read in between); a step that is not a dispatch writes nothing.
C1_RequestAnsweredInDispatch ==
    [][/\ (DecodedRequest /\ MethodIn(RequestMethods)) =>
            /\ WritesOne
            /\ IsResponse(Last(stdout'))
            /\ Last(stdout').id = Field(message, "id")
            /\ "result" \in DOMAIN Last(stdout')
            /\ "error" \notin DOMAIN Last(stdout')
            /\ nread' = nread
            /\ pc' = "loop"
       /\ pc # "dispatch" => stdout' = stdout]_vars

\* a registered request has been dispatched and its response is the last
\* message on the channel
C1_Witness ==
    /\ pc = "loop"
    /\ HasId
    /\ MethodIn(RequestMethods)
    /\ stdout # <<>>
    /\ IsResponse(Last(stdout))
    /\ Last(stdout).id = Field(message, "id")
    /\ "result" \in DOMAIN Last(stdout)

\* C2: the dispatch of a notification, whatever its method and whether its
\* handler returns or raises, appends to the channel nothing but
\* textDocument/publishDiagnostics notifications (never a message with an id).
C2_NotificationNeverAnswered ==
    [][DecodedNotification =>
          /\ Extends
          /\ \A i \in (Len(stdout) + 1)..Len(stdout') : IsPublish(stdout'[i])]_vars

\* a notification whose handler raised has been dispatched, after another
\* one had published diagnostics
C2_Witness ==
    /\ pc = "loop"
    /\ NoId
    /\ log # <<>>
    /\ Last(log) = "Error handling notification"
    /\ stdout # <<>>
    /\ \A i \in 1..Len(stdout) : IsPublish(stdout[i])

\* what C3 says of a message whose method is not registered for its kind
Unregistered ==
    IF Field(message, "id") # JNull THEN ~MethodIn(RequestMethods)
    ELSE ~MethodIn(NotificationMethods)

\* C3: a request or notification whose method is not registered is dropped:
\* nothing is written, the document map and the two flags are unchanged, and
\* control is back at the loop test to read the next message.
C3_UnregisteredDropped ==
    [][(pc = "dispatch" /\ IsObj(message) /\ Unregistered) =>
          /\ stdout' = stdout
          /\ documents' = documents
          /\ initialized' = initialized
          /\ running' = running
          /\ pc' = "loop"]_vars

\* C4: when the handler of a registered request raises (handle_request logs
\* "Error handling request"), the dispatch appends exactly one message, a
\* response with the request's id and an error of code -32603 and no result;
\* no response on the channel has both a result and an error, or neither.
C4_FailedRequestGetsInternalError ==
    [][/\ (DecodedRequest /\ MethodIn(RequestMethods)
             /\ Logs({"Error handling request"})) =>
            /\ WritesOne
            /\ IsResponse(Last(stdout'))
            /\ Last(stdout').id = Field(message, "id")
            /\ "error" \in DOMAIN Last(stdout')
            /\ Last(stdout').error.code = -32603
            /\ "result" \notin DOMAIN Last(stdout')
       /\ \A i \in 1..Len(stdout') :
            IsResponse(stdout'[i]) =>
               ("result" \in DOMAIN stdout'[i]) # ("error" \in DOMAIN stdout'[i])]_vars

\* a request handler has raised and the error response is the last message
C4_Witness ==
    /\ pc = "loop"
    /\ HasId
    /\ MethodIn(RequestMethods)
    /\ log # <<>>
    /\ Last(log) = "Error handling request"
    /\ stdout # <<>>
    /\ "error" \in DOMAIN Last(stdout)
    /\ Last(stdout).id = Field(message, "id")

\* C5: a dispatch in which a registered handler raises (a handler error is
\* logged) ends back at the loop test, with running as it was unless the
\* handler was shutdown's: the loop is not left through an exception.
C5_HandlerFailureKeepsLoop ==
    [][(pc = "dispatch" /\ Logs(HandlerErrors)) =>
          /\ pc' = "loop"
          /\ nread' = nread
          /\ running' = running \/ MethodIn({"shutdown"})]_vars

\* the first message made its handler raise and the second message has been
\* read and is about to be dispatched
C5_Witness ==
    /\ pc = "dispatch"
    /\ nread = 2
    /\ Len(log) = 1
    /\ log[1] \in HandlerErrors

\* the params of the message, {} when it has none
ParamsOf ==
    IF IsObj(message) /\ "params" \in DOMAIN message[2] THEN message[2].params
    ELSE EmptyObj

\* params.textDocument.uri, null where a level is missing
NoteUri == Field(Field(ParamsOf, "textDocument"), "uri")

\* params.contentChanges, [] when params has none
ChangesOf ==
    IF IsObj(ParamsOf) /\ "contentChanges" \in DOMAIN ParamsOf[2]
    THEN ParamsOf[2].contentChanges
    ELSE JList(<<>>)

\* the notification names a document: params is an object, textDocument is
\* an object or missing, and the uri is a string or missing
NamesDocument ==
    /\ IsObj(ParamsOf)
    /\ "textDocument" \in DOMAIN ParamsOf[2] => IsObj(ParamsOf[2].textDocument)
    /\ Tag(NoteUri) \in {"str", "null"}

\* C6 as stated, for notifications whose handler does not raise: after every
\* didOpen, didChange and didClose notification, a didChange with an empty
\* contentChanges list included, exactly one publishDiagnostics notification
\* for the notification's URI is sent.
C6_PublishAfterEveryDocumentNotification ==
    [][(DecodedNotification /\ MethodIn(DocumentMethods) /\ log' = log) =>
          /\ WritesOne
          /\ IsPublish(Last(stdout'))
          /\ Last(stdout').params.uri = NoteUri]_vars

\* C6 amended: a didOpen, didChange or didClose notification whose handler
\* does not raise sends exactly one publishDiagnostics notification for its
\* URI, except a didChange whose contentChanges is empty, which sends
\* nothing; a handler that raises sends nothing.
C6_PublishAfterCompletedDocumentNotification ==
    [][(DecodedNotification /\ MethodIn(DocumentMethods)) =>
          IF Logs({"Error handling notification"}) THEN stdout' = stdout
          ELSE IF MethodIn({"textDocument/didChange"}) /\ ~Truthy(ChangesOf)
               THEN stdout' = stdout
               ELSE /\ WritesOne
                    /\ IsPublish(Last(stdout'))
                    /\ Last(stdout').params.uri = NoteUri]_vars

\* a didOpen has published, and a didChange with an empty contentChanges
\* list has then been dispatched without a second publish
C6_Witness ==
    /\ pc = "loop"
    /\ NoId
    /\ MethodIn({"textDocument/didChange"})
    /\ ChangesOf = JList(<<>>)
    /\ nread = 2
    /\ log = <<>>
    /\ Len(stdout) = 1
    /\ IsPublish(stdout[1])
    /\ stdout[1].params.uri = NoteUri

\* the positions on the channel of the publishes for uri u
PublishesFor(u) ==
    {i \in 1..Len(stdout) : IsPublish(stdout[i]) /\ stdout[i].params.uri = u}

\* the most recent publish for u
LastPublish(u) ==
    stdout[CHOOSE i \in PublishesFor(u) : \A j \in PublishesFor(u) : j <= i]

PublishedUris == {stdout[i].params.uri : i \in {j \in 1..Len(stdout) : IsPublish(stdout[j])}}

\* C7: in every state, for every URI in the document map the most recent
\* publish for it carries analyze(stored text), and for every URI that has
\* been published for and is not in the map (closed, not reopened) the most
\* recent publish is empty.
C7_DiagnosticsMatchStoredText ==
    /\ \A u \in DOMAIN documents :
          /\ PublishesFor(u) # {}
          /\ IsStr(documents[u])
          /\ LastPublish(u).params.diagnostics = AnalyzeDocument(documents[u][2])
    /\ \A u \in PublishedUris \ DOMAIN documents :
          LastPublish(u).params.diagnostics = <<>>

\* C8: a didChange naming a document, whose contentChanges is a list whose
\* first entry is an object, stores the text of that first entry (the empty
\* text when the entry has none) under the URI, leaves every other entry of
\* the map alone and, the text being a string, publishes exactly the
\* diagnostics of that text: the later entries play no part.
C8_FirstChangeOnly ==
    [][(/\ DecodedNotification
        /\ MethodIn({"textDocument/didChange"})
        /\ NamesDocument
        /\ IsList(ChangesOf)
        /\ Len(ChangesOf[2]) >= 1
        /\ IsObj(ChangesOf[2][1])) =>
          LET first == ChangesOf[2][1][2]
              text  == IF "text" \in DOMAIN first THEN first.text ELSE JStr(<<>>)
          IN  /\ DOMAIN documents' = DOMAIN documents \cup {NoteUri}
              /\ documents'[NoteUri] = text
              /\ \A u \in DOMAIN documents \ {NoteUri} : documents'[u] = documents[u]
              /\ IF IsStr(text)
                 THEN stdout' = Append(stdout,
                          PublishNotification(NoteUri, AnalyzeDocument(text[2])))
                 ELSE stdout' = stdout]_vars

\* a didChange with two entries of different texts has been dispatched, and
\* the stored text is the first entry's
C8_Witness ==
    /\ pc = "loop"
    /\ NoId
    /\ MethodIn({"textDocument/didChange"})
    /\ IsList(ChangesOf)
    /\ Len(ChangesOf[2]) = 2
    /\ ChangesOf[2][1] # ChangesOf[2][2]
    /\ NoteUri \in DOMAIN documents
    /\ documents[NoteUri] = ChangesOf[2][1][2].text
    /\ stdout # <<>>
    /\ Last(stdout).params.uri = NoteUri

\* C9: a didClose naming a document leaves its URI absent from the map,
\* whether or not it was there, leaves every other entry as it was, and
\* publishes an empty diagnostics list for the URI.
C9_CloseRemovesAndClears ==
    [][(DecodedNotification /\ MethodIn({"textDocument/didClose"}) /\ NamesDocument) =>
          /\ NoteUri \notin DOMAIN documents'
          /\ DOMAIN documents' = DOMAIN documents \ {NoteUri}
          /\ \A u \in DOMAIN documents' : documents'[u] = documents[u]
          /\ stdout' = Append(stdout,
                 [jsonrpc |-> "2.0", method |-> "textDocument/publishDiagnostics",
                  params |-> [uri |-> NoteUri, diagnostics |-> <<>>]])]_vars

\* a document that was open with a diagnostic has been closed while another
\* document stays open
C9_Witness ==
    /\ pc = "loop"
    /\ NoId
    /\ MethodIn({"textDocument/didClose"})
    /\ NoteUri \notin DOMAIN documents
    /\ DOMAIN documents # {}
    /\ Len(stdout) = 3
    /\ stdout[3].params = [uri |-> NoteUri, diagnostics |-> <<>>]
    /\ \E i \in 1..2 : /\ stdout[i].params.uri = NoteUri
                        /\ stdout[i].params.diagnostics # <<>>

\* C10: the dispatch of a shutdown request clears running and appends the
\* response with the request's id and a null result, before the loop is
\* left; once running is false it stays false, no message is read or
\* dispatched and nothing is written: the only step left is leaving the loop.
C10_ShutdownStopsLoop ==
    [][/\ (DecodedRequest /\ MethodIn({"shutdown"})) =>
            /\ running' = FALSE
            /\ stdout' = Append(stdout,
                   [jsonrpc |-> "2.0", id |-> Field(message, "id"), result |-> JNull])
            /\ pc' = "loop"
       /\ ~running =>
            /\ running' = FALSE
            /\ nread' = nread
            /\ message' = message
            /\ stdout' = stdout
            /\ documents' = documents
            /\ pc' = "stopped"]_vars

\* the loop has been left after a shutdown request, the null response being
\* the last message written, while further messages could have been read
C10_Witness ==
    /\ pc = "stopped"
    /\ ~running
    /\ HasId
    /\ MethodIn({"shutdown"})
    /\ nread < MaxMessages
    /\ stdout # <<>>
    /\ Last(stdout) = [jsonrpc |-> "2.0", id |-> Field(message, "id"), result |-> JNull]

\* C11: the dispatch of an exit notification ends the program at once, in
\* whatever state, writing nothing and changing nothing; after it no step is
\* taken (nothing is read, dispatched or written); and a program that has
\* ended with running false (a shutdown came first) has the null response of
\* that shutdown as the last message on the channel.
C11_ExitTerminates ==
    [][/\ (DecodedNotification /\ MethodIn({"exit"})) =>
            /\ pc' = "exited"
            /\ stdout' = stdout
            /\ nread' = nread
            /\ documents' = documents
       /\ pc = "exited" => vars' = vars
       /\ (pc' \in {"stopped", "exited"} /\ ~running') =>
            /\ stdout' # <<>>
            /\ IsResponse(Last(stdout'))
            /\ "result" \in DOMAIN Last(stdout')
            /\ Last(stdout').result = JNull]_vars

\* the program has ended on an exit notification that followed another
\* message which wrote to the channel, while more input could be read
C11_Witness ==
    /\ pc = "exited"
    /\ NoId
    /\ MethodIn({"exit"})
    /\ nread = 2
    /\ nread < MaxMessages
    /\ stdout # <<>>

\* C12: messages are handled one at a time: a read happens only at the loop
\* test and writes nothing, a message that has been read is dispatched by
\* the very next step and only once (the step keeps the message, reads
\* nothing and leaves the dispatch), and the channel only grows at its end,
\* so what message k caused comes before what message k+1 caused.
C12_OneMessageAtATime ==
    [][/\ Extends
       /\ nread' >= nread
       /\ nread' # nread =>
            /\ nread' = nread + 1
            /\ pc = "loop"
            /\ stdout' = stdout
            /\ documents' = documents
       /\ pc = "dispatch" =>
            /\ nread' = nread
            /\ message' = message
            /\ pc' # "dispatch"
            /\ Len(stdout') <= Len(stdout) + 1]_vars

\* two requests have been answered, the responses standing on the channel
\* in the order of the requests
C12_Witness ==
    /\ pc = "loop"
    /\ nread = 2
    /\ Len(stdout) = 2
    /\ IsResponse(stdout[1])
    /\ IsResponse(stdout[2])
    /\ stdout[1].id = JInt(0)
    /\ stdout[2].id = JInt(1)
    /\ HasId
    /\ Field(message, "id") = JInt(1)

\* C13: every dispatch of an initialize request, whatever the state and
\* however many came before, leaves initialized true, the document map and
\* running as they were, and answers with the one capability descriptor and
\* server identity.
C13_InitializeIdempotent ==
    [][(DecodedRequest /\ MethodIn({"initialize"})) =>
          /\ initialized' = TRUE
          /\ documents' = documents
          /\ running' = running
          /\ WritesOne
          /\ "result" \in DOMAIN Last(stdout')
          /\ Last(stdout').result = InitializeResult
          /\ Last(stdout').id = Field(message, "id")]_vars

\* initialize has been answered twice, with the same result, while a
\* document is open
C13_Witness ==
    /\ pc = "loop"
    /\ HasId
    /\ MethodIn({"initialize"})
    /\ initialized
    /\ DOMAIN documents # {}
    /\ Len(stdout) = 3
    /\ \E i \in 1..2 :
          /\ IsResponse(stdout[i])
          /\ IsResponse(stdout[i + 1])
          /\ stdout[i].result = stdout[i + 1].result
          /\ stdout[i].result = InitializeResult

\* ------------------------------------------------------------------------
\* Vocabulary of the properties of analyze: the text last opened and the
\* diagnostics last published
\* ------------------------------------------------------------------------

\* a didOpen has been handled and its diagnostics are on the channel
Analyzed == pc = "loop" /\ nread > 0 /\ stdout # <<>> /\ IsPublish(Last(stdout))

\* the lines of the text in the document map, line n at index n + 1
OpenedLines == Split(documents[UriA][2])

Reported == Last(stdout).params.diagnostics

LineOf(d) == d.range.start.line

IsTodoDiagnostic(d) == d.message[1] = "TODO found: Consider addressing this item"

IsFixmeDiagnostic(d) == d.message[1] = "FIXME found: This requires immediate attention"

IsLengthDiagnostic(d) == d.message[1] = "Line too long ("

IsDuplicateDiagnostic(d) == d.message[1] = "Duplicate line detected"

\* TODO 1, FIXME 2, line-length 3, duplicate 4
Rank(d) ==
    CASE IsTodoDiagnostic(d) -> 1
      [] IsFixmeDiagnostic(d) -> 2
      [] IsLengthDiagnostic(d) -> 3
      [] IsDuplicateDiagnostic(d) -> 4
      [] OTHER -> 0

\* the positions in Reported of the diagnostics of line n that satisfy Is
OnLine(n, Is(_)) ==
    {i \in 1..Len(Reported) : LineOf(Reported[i]) = n /\ Is(Reported[i])}

\* C18: the diagnostics published for a text are ordered by ascending line
\* number and, within one line, in the order TODO, FIXME, line-length,
\* duplicate, each kind at most once per line.
C18_DiagnosticsOrdered ==
    Analyzed =>
        \A i \in 1..Len(Reported) : \A j \in 1..Len(Reported) :
            i < j =>
                \/ LineOf(Reported[i]) < LineOf(Reported[j])
                \/ /\ LineOf(Reported[i]) = LineOf(Reported[j])
                   /\ Rank(Reported[i]) < Rank(Reported[j])

\* one line has produced all four diagnostics, after a line that produced
\* some as well
C18_Witness ==
    /\ Analyzed
    /\ Len(Reported) > 4
    /\ LineOf(Reported[1]) = 0
    /\ \A k \in 1..4 :
          /\ LineOf(Reported[Len(Reported) - 4 + k]) = 1
          /\ Rank(Reported[Len(Reported) - 4 + k]) = k

\* the lower-case form of a capital letter of TODO and FIXME
Lower(c) ==
    CASE c = "T" -> "t" [] c = "O" -> "o" [] c = "D" -> "d" [] c = "F" -> "f"
      [] c = "I" -> "i" [] c = "X" -> "x" [] c = "M" -> "m" [] c = "E" -> "e"

\* letters, digits and the underscore, as far as the texts use them
IsWordCharacter(c) ==
    c \in {"T", "O", "D", "F", "I", "X", "M", "E", "t", "o", "d", "f", "i", "x",
           "m", "e", "a", "_"}

\* word, in any mix of upper and lower case, stands in line at columns
\* start .. start + Len(word) with no word character on either side
WholeWordAt(word, line, start) ==
    /\ start >= 0
    /\ start + Len(word) <= Len(line)
    /\ \A k \in 1..Len(word) : line[start + k] \in {word[k], Lower(word[k])}
    /\ start = 0 \/ ~IsWordCharacter(line[start])
    /\ start + Len(word) = Len(line)
          \/ ~IsWordCharacter(line[start + Len(word) + 1])

HasWholeWord(word, line) == \E start \in 0..Len(line) : WholeWordAt(word, line, start)

\* the diagnostic covers, on line n, a whole-word occurrence of word
CoversWord(d, word, n) ==
    /\ d.range.start.line = n
    /\ d.range.end.line = n
    /\ WholeWordAt(word, OpenedLines[n + 1], d.range.start.character)
    /\ d.range.end.character = d.range.start.character + Len(word)

\* C19: for every line of the text, a TODO diagnostic is published for it
\* exactly when it holds TODO as a whole word in any letter case, and a FIXME
\* diagnostic exactly when it holds FIXME so; there is at most one of each,
\* the TODO one has severity 3 and the FIXME one severity 2, each range
\* covers an occurrence of its word on that line, and when both are there
\* the TODO one comes first.
C19_MarkersWholeWordAnyCase ==
    Analyzed =>
        \A n \in 0..(Len(OpenedLines) - 1) :
            LET line   == OpenedLines[n + 1]
                todos  == OnLine(n, IsTodoDiagnostic)
                fixmes == OnLine(n, IsFixmeDiagnostic)
            IN  /\ todos # {} <=> HasWholeWord(<<"T", "O", "D", "O">>, line)
                /\ fixmes # {} <=> HasWholeWord(<<"F", "I", "X", "M", "E">>, line)
                /\ Cardinality(todos) <= 1
                /\ Cardinality(fixmes) <= 1
                /\ \A i \in todos :
                      /\ Reported[i].severity = 3
                      /\ CoversWord(Reported[i], <<"T", "O", "D", "O">>, n)
                /\ \A i \in fixmes :
                      /\ Reported[i].severity = 2
                      /\ CoversWord(Reported[i], <<"F", "I", "X", "M", "E">>, n)
                /\ \A i \in todos : \A j \in fixmes : i < j

\* the line "fixMe:tOdo" has produced exactly two diagnostics, the TODO one
\* (columns 6 to 10) before the FIXME one (columns 0 to 5)
C19_Witness ==
    /\ Analyzed
    /\ documents[UriA][2] = <<"f", "i", "x", "M", "e", ":", "t", "O", "d", "o">>
    /\ Len(Reported) = 2
    /\ IsTodoDiagnostic(Reported[1])
    /\ Reported[1].range.start.character = 6
    /\ Reported[1].range.end.character = 10
    /\ IsFixmeDiagnostic(Reported[2])
    /\ Reported[2].range.start.character = 0
    /\ Reported[2].range.end.character = 5

\* C20: for every line of the text, a line-length diagnostic is published
\* for it exactly when the line has more than 120 characters; there is then
\* one, of severity 2, ranging from column 120 to column n of that line,
\* with n in its message, n being the number of characters of the line.
C20_LineLengthOver120 ==
    Analyzed =>
        \A n \in 0..(Len(OpenedLines) - 1) :
            LET line    == OpenedLines[n + 1]
                lengths == OnLine(n, IsLengthDiagnostic)
            IN  /\ lengths # {} <=> Len(line) > 120
                /\ Cardinality(lengths) <= 1
                /\ \A i \in lengths :
                      /\ Reported[i].severity = 2
                      /\ Reported[i].range.start = [line |-> n, character |-> 120]
                      /\ Reported[i].range.end = [line |-> n, character |-> Len(line)]
                      /\ Reported[i].message[2] = Len(line)

\* a text of one line of 125 characters has produced the one diagnostic,
\* columns 120 to 125, message with 125
C20_Witness ==
    /\ Analyzed
    /\ Len(OpenedLines) = 1
    /\ Len(OpenedLines[1]) = 125
    /\ Len(Reported) = 1
    /\ IsLengthDiagnostic(Reported[1])
    /\ Reported[1].range.start.character = 120
    /\ Reported[1].range.end.character = 125
    /\ Reported[1].message[2] = 125

\* nothing is left of the line when blanks, tabs and carriage returns are
\* trimmed from its ends
IsBlank(line) == \A k \in 1..Len(line) : line[k] \in {" ", "\t", "\r"}

\* C21: for every line n of the text, a duplicate diagnostic is published
\* for it exactly when n > 0, the line is not blank after trimming and it is
\* character for character the line n - 1; there is then one, of severity 3,
\* ranging from column 0 to the length of the line on line n. So the first
\* line of a run gets none, every later line of a run of identical non-blank
\* lines gets one, and identical blank lines get none.
C21_DuplicateConsecutive ==
    Analyzed =>
        \A n \in 0..(Len(OpenedLines) - 1) :
            LET line == OpenedLines[n + 1]
                dups == OnLine(n, IsDuplicateDiagnostic)
            IN  /\ dups # {} <=>
                      /\ n > 0
                      /\ ~IsBlank(line)
                      /\ Len(line) = Len(OpenedLines[n])
                      /\ \A k \in 1..Len(line) : line[k] = OpenedLines[n][k]
                /\ Cardinality(dups) <= 1
                /\ \A i \in dups :
                      /\ Reported[i].severity = 3
                      /\ Reported[i].range.start = [line |-> n, character |-> 0]
                      /\ Reported[i].range.end = [line |-> n, character |-> Len(line)]

\* the text "x=1", "x=1", "x=1" has produced two diagnostics, one for the
\* second and one for the third line, columns 0 to 3
C21_Witness ==
    /\ Analyzed
    /\ OpenedLines = <<<<"x", "=", "1">>, <<"x", "=", "1">>, <<"x", "=", "1">>>>
    /\ Len(Reported) = 2
    /\ \A n \in 1..2 :
          /\ IsDuplicateDiagnostic(Reported[n])
          /\ Reported[n].range.start = [line |-> n, character |-> 0]
          /\ Reported[n].range.end = [line |-> n, character |-> 3]

\* the diagnostic starts at the leftmost column of the line n where word
\* stands as a whole word
AtFirstWholeWord(d, word, n) ==
    /\ WholeWordAt(word, OpenedLines[n + 1], d.range.start.character)
    /\ \A start \in 0..(d.range.start.character - 1) :
          ~WholeWordAt(word, OpenedLines[n + 1], start)

\* C25: for every line of the text at most one TODO diagnostic and at most
\* one FIXME diagnostic is published, each on the first whole-word
\* occurrence of its marker in the line, however often the marker stands
\* there; a line has at most four diagnostics, and the text at most four
\* times as many as it has lines.
C25_OneDiagnosticPerMarkerAndLine ==
    Analyzed =>
        /\ \A n \in 0..(Len(OpenedLines) - 1) :
              LET todos  == OnLine(n, IsTodoDiagnostic)
                  fixmes == OnLine(n, IsFixmeDiagnostic)
                  all    == {i \in 1..Len(Reported) : LineOf(Reported[i]) = n}
              IN  /\ Cardinality(todos) <= 1
                  /\ Cardinality(fixmes) <= 1
                  /\ \A i \in todos :
                        AtFirstWholeWord(Reported[i], <<"T", "O", "D", "O">>, n)
                  /\ \A i \in fixmes :
                        AtFirstWholeWord(Reported[i], <<"F", "I", "X", "M", "E">>, n)
                  /\ Cardinality(all) <= 4
        /\ \A i \in 1..Len(Reported) :
              LineOf(Reported[i]) \in 0..(Len(OpenedLines) - 1)
        /\ Len(Reported) <= 4 * Len(OpenedLines)

\* the line "aTODO TODO tOdo FIXMEa fixme:FIXME" has produced two
\* diagnostics: TODO at columns 6 to 10 and FIXME at columns 23 to 28
C25_Witness ==
    /\ Analyzed
    /\ Len(OpenedLines) = 1
    /\ Len(OpenedLines[1]) = 34
    /\ WholeWordAt(<<"T", "O", "D", "O">>, OpenedLines[1], 11)
    /\ WholeWordAt(<<"F", "I", "X", "M", "E">>, OpenedLines[1], 29)
    /\ Len(Reported) = 2
    /\ IsTodoDiagnostic(Reported[1])
    /\ Reported[1].range.start.character = 6
    /\ Reported[1].range.end.character = 10
    /\ IsFixmeDiagnostic(Reported[2])
    /\ Reported[2].range.start.character = 23
    /\ Reported[2].range.end.character = 28

\* ------------------------------------------------------------------------
\* Vocabulary of the properties of the framing
\* ------------------------------------------------------------------------

\* the characters this step has appended to the channel
Written == SubSeq(stdin', Len(stdin) + 1, Len(stdin'))

\* the number of bytes of s in UTF-8: one for a character of ASCII, two for
\* U+00E9, three for U+20AC
Utf8Bytes(s) ==
    Len(s) + Cardinality({i \in 1..Len(s) : s[i] = "U+00E9"})
           + 2 * Cardinality({i \in 1..Len(s) : s[i] = "U+20AC"})

\* the index of the empty line "\r\n\r\n" that ends the headers of s
HeaderEnd(s) ==
    CHOOSE i \in 1..Len(s) :
        /\ i + 3 <= Len(s)
        /\ SubSeq(s, i, i + 3) = <<"\r", "\n", "\r", "\n">>
        /\ \A j \in 1..(i - 1) : SubSeq(s, j, j + 3) # <<"\r", "\n", "\r", "\n">>

\* s is "Content-Length: ", the decimal number n, the empty line, and then
\* n bytes and nothing else
WellFramed(s) ==
    LET name == <<"C", "o", "n", "t", "e", "n", "t", "-", "L", "e", "n", "g",
                  "t", "h", ":", " ">>
        body == SubSeq(s, HeaderEnd(s) + 4, Len(s))
        declared == SubSeq(s, Len(name) + 1, HeaderEnd(s) - 1)
    IN  /\ SubSeq(s, 1, Len(name)) = name
        /\ declared = Digits(Utf8Bytes(body))

\* C14: every frame that send_message writes declares the UTF-8 byte length
\* of its body, and every read of the channel returns the message value of
\* the frame it read, equal to the value that was sent: the k-th read
\* returns the k-th value sent.
C14_RoundTrip ==
    [][/\ sent' # sent => WellFramed(Written)
       /\ received' # received =>
            /\ Len(received') <= Len(sent)
            /\ Last(received') = sent[Len(received')]]_vars

\* two frames were written back to back, the first with a nested object and
\* text outside ASCII, and both have been read back
C14_Witness ==
    /\ Len(sent) = 2
    /\ received = sent
    /\ stdin = <<>>
    /\ \E k \in 1..Len(sent[1][2]) :
          /\ Tag(sent[1][2][k][2]) = "dict"
          /\ \E m \in 1..Len(sent[1][2][k][2][2]) :
                sent[1][2][k][2][2][m][2] = JStr(<<"a", "\"", "\\", "U+00E9", "U+20AC">>)


\* C15: on an input of correctly framed messages placed back to back, the
\* k-th read returns the value of the k-th message, and once as many
\* messages are read as were written nothing is left of the input.
C15_ReadsExactlyTheFrames ==
    [][received' # received =>
          /\ Len(received') <= Len(sent)
          /\ Last(received') = sent[Len(received')]
          /\ Len(received') = Len(sent) => stdin' = <<>>]_vars


\* this step is a call of read_message
ReadStep == pc = "loop" /\ nread' = nread + 1

\* the unread input starts with these characters
Ahead(chars) == Len(chars) <= Len(stdin) /\ SubSeq(stdin, 1, Len(chars)) = chars

Terminated == pc \in {"stopped", "error", "exited"}

\* C16: a read that finds the input at its end, or ending within a header
\* line, or a frame that declares length 0, stops the loop cleanly: no error
\* record, and nothing written; and on every finite stream the loop
\* terminates.
C16_NoMessageStopsCleanly ==
    /\ [][(ReadStep /\ (stdin = <<>> \/ stdin = TruncatedHeader
                          \/ Ahead(ZeroLengthFrame))) =>
             /\ pc' = "stopped"
             /\ log' = log
             /\ stdout' = stdout]_vars
    /\ <>Terminated

\* C17: a read that meets a header line without ": " or a body that is not
\* JSON ends the loop with an error, changing neither the document map nor
\* the channel; and once the loop has ended so, no step follows: the
\* messages left in the stream are neither read nor dispatched.
C17_FramingErrorIsFatal ==
    [][/\ (ReadStep /\ (Ahead(HeaderWithoutColon) \/ Ahead(BodyNotJson))) =>
            /\ pc' = "error"
            /\ documents' = documents
            /\ stdout' = stdout
       /\ pc = "error" => vars' = vars]_vars

\* after an initialize that was answered, a frame with a body that is not
\* JSON has ended the loop, and the didOpen behind it stays unread
C17_Witness ==
    /\ pc = "error"
    /\ nread = 2
    /\ Len(stdout) = 1
    /\ IsResponse(stdout[1])
    /\ stdin = Frame(WireDidOpen)
    /\ documents = <<>>
    /\ log = <<"Server error">>


\* C22: a didOpen, didChange or didClose notification whose handler raises
\* (the error is logged) leaves the document map as it was before the
\* notification and writes nothing to the channel.
C22_FailedDocumentHandlerChangesNothing ==
    [][(/\ DecodedNotification
        /\ MethodIn(DocumentMethods)
        /\ Logs({"Error handling notification"})) =>
          /\ documents' = documents
          /\ stdout' = stdout]_vars

\* C23: the route is chosen by the kind of the message and then by its
\* method. A message whose id is not null (0 and "a" included) is a request:
\* under the method initialize or shutdown it gets exactly one response with
\* its id, and under initialized, didOpen, didChange, didClose or exit it
\* changes neither the document map nor running nor initialized, writes
\* nothing, and the server goes on to the next message. A message without an
\* id or with id null is a notification: under initialize or shutdown it
\* changes neither initialized nor running nor the map, gets no response, and
\* the server goes on; under exit it ends the program; and no notification
\* is answered with a response.
C23_RoutingByKindAndMethod ==
    [][/\ (DecodedRequest /\ MethodIn(RequestMethods)) =>
             /\ WritesOne
             /\ IsResponse(Last(stdout'))
             /\ Last(stdout').id = Field(message, "id")
       /\ (DecodedRequest /\ MethodIn(NotificationMethods)) =>
             /\ documents' = documents
             /\ running' = running
             /\ initialized' = initialized
             /\ stdout' = stdout
             /\ pc' = "loop"
       /\ (DecodedNotification /\ MethodIn(RequestMethods)) =>
             /\ documents' = documents
             /\ running' = running
             /\ initialized' = initialized
             /\ stdout' = stdout
             /\ pc' = "loop"
       /\ (DecodedNotification /\ MethodIn({"exit"})) => pc' = "exited"
       /\ DecodedNotification =>
             /\ Extends
             /\ \A i \in (Len(stdout) + 1)..Len(stdout') : ~IsResponse(stdout'[i])
      ]_vars

\* a didOpen has stored and published, then an exit carrying the id 0 has
\* been dispatched: the document is still there, nothing more was written
\* and the server is back at the loop, still running
C23_Witness ==
    /\ pc = "loop"
    /\ nread = 2
    /\ HasId
    /\ Field(message, "id") = JInt(0)
    /\ MethodIn({"exit"})
    /\ running
    /\ ~initialized
    /\ DOMAIN documents = {UriA}
    /\ Len(stdout) = 1
    /\ IsPublish(stdout[1])

\* C24: a didChange naming a document that is not in the map, whose
\* contentChanges is a list whose first entry is an object with a text that
\* is a string, adds an entry for the URI holding that text, leaves the other
\* entries alone and publishes one notification for the URI: the map and
\* the channel are then what a didOpen of the URI with that text would have
\* made of them. A didClose naming a document that is in the map removes it.
C24_ChangeOfUnopenedCreates ==
    [][/\ (/\ DecodedNotification
           /\ MethodIn({"textDocument/didChange"})
           /\ NamesDocument
           /\ NoteUri \notin DOMAIN documents
           /\ IsList(ChangesOf)
           /\ Len(ChangesOf[2]) >= 1
           /\ IsObj(ChangesOf[2][1])
           /\ IsStr(Field(ChangesOf[2][1], "text"))) =>
             LET text   == Field(ChangesOf[2][1], "text")
                 opened == DidOpen(documents, stdout, OpenParams(NoteUri, text))
             IN  /\ DOMAIN documents' = DOMAIN documents \cup {NoteUri}
                 /\ documents'[NoteUri] = text
                 /\ \A u \in DOMAIN documents : documents'[u] = documents[u]
                 /\ WritesOne
                 /\ IsPublish(Last(stdout'))
                 /\ Last(stdout').params.uri = NoteUri
                 /\ documents' = opened.docs
                 /\ stdout' = opened.out
                 /\ log' = log
       /\ (/\ DecodedNotification
           /\ MethodIn({"textDocument/didClose"})
           /\ NamesDocument
           /\ NoteUri \in DOMAIN documents) =>
             NoteUri \notin DOMAIN documents'
      ]_vars

\* the first message was a didChange for a document never opened: the map
\* holds its text, "x TODO", and the channel the one publish, with the
\* diagnostic of that text
C24_Witness ==
    /\ pc = "loop"
    /\ nread = 1
    /\ NoId
    /\ MethodIn({"textDocument/didChange"})
    /\ log = <<>>
    /\ IsList(ChangesOf)
    /\ Len(ChangesOf[2]) >= 1
    /\ DOMAIN documents = {NoteUri}
    /\ documents[NoteUri] = Field(ChangesOf[2][1], "text")
    /\ Len(stdout) = 1
    /\ IsPublish(stdout[1])
    /\ stdout[1].params.uri = NoteUri
    /\ Len(stdout[1].params.diagnostics) = 1

====
